---- MODULE Spec2Model ----
(***************************************************************************)
(* Model of the whiteboard server (src/server.js): the socket.io event     *)
(* handlers, the two SQLite tables and the asynchronous db.run / db.all    *)
(* calls with their callbacks.                                             *)
(*                                                                         *)
(* The sqlite3 Database is used in its default (parallel) mode: statements *)
(* handed to db.run/db.all are executed by worker threads in no guaranteed *)
(* order, and a statement's callback runs on the event loop some time      *)
(* after the statement was executed.  A statement is therefore an entry of *)
(* dbQueue that is executed by DbExec (any queued entry) and whose callback *)
(* is run later by DbCallback.  Under Spec the storage works; under        *)
(* FaultSpec a statement may also fail with a storage fault (DbFault).     *)
(*                                                                         *)
(* Init is the running server with its MaxConns connections accepted       *)
(* (io.on('connection') only logs and registers the handlers).             *)
(*                                                                         *)
(* The REST endpoints (app.get / app.post / app.delete) are the actions    *)
(* Api...; they run under HttpSpec, where the clock of CURRENT_TIMESTAMP    *)
(* (one-second resolution) also advances.  Under Spec and FaultSpec the    *)
(* whole run takes place within one second.  The timestamps put into the   *)
(* payloads (new Date().toISOString()) are left out.                       *)
(*                                                                         *)
(* SessionSpec starts from a session in progress (two participants have    *)
(* joined) and follows the board each client shows; a participant may      *)
(* leave while statements are in flight.  SweepSpec is that session over   *)
(* midnight, with the hourly sweep of old sessions (setInterval).          *)
(***************************************************************************)
EXTENDS Integers, Sequences, FiniteSets, TLC

\* ---------------------------------------------------------------- bounds
MaxConns == 2      \* socket connections
MaxId == 2         \* rows ever inserted into drawings
MaxTextId == 1     \* client-chosen text ids are 1..MaxTextId
MaxPending == 2    \* statements in flight at the same time
MaxFaults == 1     \* storage faults injected in one run
MaxEvents == 4     \* socket events accepted (statements scheduled) in one run
MaxNow == 1        \* seconds the clock advances in one run
MaxSessionEvents == 3   \* socket events accepted in a session in progress

Conns == 1..MaxConns

\* ------------------------------------------------------------ input sets
Administrator == "Administrator"   \* the role string 'Администратор'
Standard == "Standard"
Undefined == "undefined"           \* a missing field of an object
NoData == [missing |-> TRUE]       \* a missing argument (undefined)

IsMissing(d) == "missing" \in DOMAIN d

\* the people at the board: Ann and Bob are pupils, Cara is the teacher
RoleOf(u) == IF u = "Cara" THEN Administrator ELSE Standard

\* who sits at the client of connection c (Ann also reconnects on another one)
UsersAt(c) ==
  CASE c = 1 -> {"Ann"}
    [] c = 2 -> {"Bob", "Cara"}
    [] OTHER -> {"Ann"}

\* the userData the client of c sends with user_join; "" is the empty username
JoinInputs(c) ==
  {NoData}
    \cup {[username |-> "", role |-> Standard]}
    \cup {[username |-> u, role |-> RoleOf(u)] : u \in UsersAt(c)}

\* from / to: a point, or missing
DrawingInputs ==
  {NoData} \cup [from : {"p"}, to : {Undefined, "q"}] \cup [from : {Undefined}, to : {"q"}]

\* id 0 and text "" are the falsy (missing) values
Owners == {Undefined, "Ann", "Bob"}

\* the data of a text event
TextInputs ==
  {NoData}
    \cup [id : {0}, text : {"x"}, owner : {Undefined}]
    \cup [id : 1..MaxTextId, text : {"", "x"}, owner : {Undefined}]

\* the data of a textUpdate or textMove event
ChangeInputs ==
  {NoData}
    \cup [id : {0}, text : {"y"}, owner : {Undefined}]
    \cup [id : 1..MaxTextId, text : {"y"}, owner : Owners]

\* the data of a textDelete event
DeleteInputs ==
  {NoData}
    \cup [id : {0}, owner : {Undefined}]
    \cup [id : 1..MaxTextId, owner : Owners]

\* the query of GET /api/drawings; 0 is an absent (or unparsable) parameter
Queries == [limit : {0, 1}, offset : {0, 1}]

\* the body of POST /api/save; "" is a missing type, NoData missing data
SaveInputs ==
  [type : {"", "text"}, data : {NoData, [id |-> 1, text |-> "x"]},
   userId : {Undefined, "Ann"}]

\* the body of DELETE /api/clear
WipeInputs == [userId : {"Cara"}, role : {Standard, Administrator}]

\* the body of DELETE /api/drawing/:id
RemoveInputs == [userId : {"Bob"}, role : {Standard, Administrator}, owner : {"Ann", "Bob"}]

VARIABLES
  sockets,        \* sockets[c]: "open" (connected) or "closed" (disconnected)
  userData,       \* userData[c]: socket.userData, NoData until user_join
  drawings,       \* table drawings, rows in rowid order
  nextId,         \* AUTOINCREMENT of drawings (ids are never reused)
  user_sessions,  \* table user_sessions, rows in rowid order
  dbQueue,        \* statements handed to sqlite3, callbacks not yet run
  faults,         \* storage faults injected so far
  events,         \* socket events accepted so far
  last,           \* the handler or callback that ran in the last step
  sent,           \* sent[c]: the messages emitted to c in the last step
  now,            \* CURRENT_TIMESTAMP, in seconds
  res,            \* the HTTP response written in the last step, NoData if none
  board           \* board.items[c]: the items the client of c shows, if followed

vars ==
  <<sockets, userData, drawings, nextId, user_sessions, dbQueue, faults, events,
    last, sent, now, res, board>>

\* ------------------------------------------------------------- emitting
NoneSent == [c \in Conns |-> <<>>]

Msg(ev, data) == [ev |-> ev, data |-> data]

\* socket.emit: to the socket itself, if it is still connected
SocketEmit(s, c, m) ==
  [d \in Conns |-> IF d = c /\ sockets[d] = "open" THEN Append(s[d], m) ELSE s[d]]

\* BroadcastEmit without the exclusion of the sender (io.emit in its place)
BroadcastEmitToAll(s, c, m) ==
  [d \in Conns |-> IF sockets[d] = "open" THEN Append(s[d], m) ELSE s[d]]

\* socket.broadcast.emit: to every connected socket except c
BroadcastEmit(s, c, m) ==
  [d \in Conns |-> IF d # c /\ sockets[d] = "open" THEN Append(s[d], m) ELSE s[d]]

\* io.emit: to every connected socket
IoEmit(s, m) ==
  [d \in Conns |-> IF sockets[d] = "open" THEN Append(s[d], m) ELSE s[d]]

\* ------------------------------------------------------------- helpers
Active(c) == sockets[c] = "open" /\ ~IsMissing(userData[c])

Anonymous(c) == sockets[c] = "open" /\ IsMissing(userData[c])

\* { ...data, timestamp, userId: username }
Stamp(data, username) ==
  [k \in DOMAIN data \cup {"userId"} |-> IF k = "userId" THEN username ELSE data[k]]

\* JSON.stringify: the defined fields of an object, as key/value pairs
\* (id is a number; the other fields are strings or undefined)
JSONstringify(d) ==
  {<<k, d[k]>> : k \in {f \in DOMAIN d : f = "id" \/ d[f] # Undefined}}

RemoveAt(q, i) == SubSeq(q, 1, i - 1) \o SubSeq(q, i + 1, Len(q))

Reverse(q) == [i \in 1..Len(q) |-> q[Len(q) + 1 - i]]

\* a statement handed to db.run / db.all, with the callback it was given;
\* fanout: the connections the handler emitted to when it issued the statement
Stmt(sql, cb, c, arg) ==
  [sql |-> sql, cb |-> cb, conn |-> c, arg |-> arg, phase |-> "queued", rows |-> <<>>,
   fanout |-> {}, changes |-> 0, lastID |-> 0]

\* the statements of a handler that emitted these messages
Issued(stmts, emitted) ==
  [k \in 1..Len(stmts) |->
     [stmts[k] EXCEPT !.fanout = {d \in Conns : emitted[d] # <<>>}]]

Room(n) == Len(dbQueue) + n <= MaxPending

PendingInserts ==
  Len(SelectSeq(dbQueue, LAMBDA op : op.sql = "INSERT drawings" /\ op.phase = "queued"))

InsertRoom == nextId + PendingInserts <= MaxId

\* the record of a step: the handler (or "exec" / "callback" with the callback's
\* name in cb), the connection it ran for and how it ended
Step(op, c, cb, outcome) ==
  [op |-> op, conn |-> c, cb |-> cb, outcome |-> outcome]

\* ------------------------------------------------- the board of a client
\* The client keeps the items it shows: a stroke by its payload, a text by the
\* id of its createText event and its payload; payloads as JSON.
Item(type, id, json) == [type |-> type, id |-> id, data |-> json]

\* the id field of a JSON payload
IdIn(json) == (CHOOSE p \in json : p[1] = "id")[2]

\* the board b after the client applied event ev (create, update, move,
\* delete, clear); other events leave the board as it is
Apply(b, ev, id, json) ==
  CASE ev = "drawing" -> b \cup {Item("drawing", 0, json)}
    [] ev = "text" -> b \cup {Item("text", id, json)}
    [] ev \in {"textUpdate", "textMove"} ->
         {IF it.type = "text" /\ it.id = id THEN Item("text", id, json) ELSE it : it \in b}
    [] ev = "textDelete" -> {it \in b : ~(it.type = "text" /\ it.id = id)}
    [] ev = "clear" -> {}
    [] OTHER -> b

\* the events that carry a payload with an id
CarriesId(ev) == ev \in {"text", "textUpdate", "textMove", "textDelete"}

\* the board b after the client applied the message m it received
ApplyMsg(b, m) ==
  IF m.ev \in {"drawing", "text", "textUpdate", "textMove"}
    THEN Apply(b, m.ev, IF CarriesId(m.ev) THEN m.data.id ELSE 0, JSONstringify(m.data))
    ELSE IF m.ev = "textDelete" THEN Apply(b, m.ev, m.data.id, {})
    ELSE Apply(b, m.ev, 0, {})

\* the board b after the messages msgs arrived, in their order
RECURSIVE Applied(_, _)
Applied(b, msgs) ==
  IF msgs = <<>> THEN b ELSE Applied(ApplyMsg(b, Head(msgs)), Tail(msgs))

\* the boards after every client applied what was emitted to it
Seen(emitted) ==
  IF ~board.followed
    THEN board
    ELSE [board EXCEPT !.items = [d \in Conns |-> Applied(board.items[d], emitted[d])]]

\* the boards after the sender of a board event applied its own event (as the
\* server stamped it) and the others what was broadcast to them
SeenWithOwn(op, c, stmts, emitted) ==
  IF ~board.followed
    THEN board
    ELSE [board EXCEPT !.items =
            [d \in Conns |->
               IF d # c
                 THEN Applied(board.items[d], emitted[d])
                 ELSE CASE op \in {"drawing", "text"} ->
                             Apply(board.items[d], op,
                                   IF op = "text" THEN IdIn(stmts[1].arg.data) ELSE 0,
                                   stmts[1].arg.data)
                        [] op \in {"textUpdate", "textMove"} ->
                             Apply(board.items[d], op, stmts[1].arg.id, stmts[1].arg.data)
                        [] op = "textDelete" ->
                             Apply(board.items[d], op, stmts[1].arg.id, {})
                        [] OTHER -> board.items[d]]]

\* the board a client builds from the rows of listAll (GET /api/drawings)
Replay(rows) ==
  {Item(rows[k].type, IF rows[k].type = "text" THEN IdIn(rows[k].data) ELSE 0, rows[k].data) :
     k \in 1..Len(rows)}

\* the boards of the clients: empty, and followed or not
Boards(followed) == [followed |-> followed, items |-> [c \in Conns |-> {}]]

Init ==
  /\ sockets = [c \in Conns |-> "open"]
  /\ userData = [c \in Conns |-> NoData]
  /\ drawings = <<>>
  /\ nextId = 1
  /\ user_sessions = <<>>
  /\ dbQueue = <<>>
  /\ faults = 0
  /\ events = 0
  /\ last = Step("init", 0, "-", "none")
  /\ sent = NoneSent
  /\ now = 0
  /\ res = NoData
  /\ board = Boards(FALSE)

\* a handler that returns without touching state; it may have emitted
\* one more socket event is accepted
Event ==
  /\ events < MaxEvents
  /\ events' = events + 1

Return(op, c, outcome, emitted) ==
  /\ last' = Step(op, c, "-", outcome)
  /\ sent' = emitted
  /\ board' = Seen(emitted)
  /\ res' = NoData
  /\ UNCHANGED <<sockets, userData, drawings, nextId, user_sessions, dbQueue, faults,
                 events, now>>

\* Drop that answers the sender with an error notice
DropWithNotice(c, outcome) ==
  Return("dropped", c, outcome,
         SocketEmit(NoneSent, c, Msg("error", [message |-> outcome])))

\* a handler that drops the event: it logs and returns ("unauthorized": no
\* socket.userData; "invalid": a required field is missing)
Drop(c, outcome) == Return("dropped", c, outcome, NoneSent)

\* a handler that hands statements to the database and emits
Schedule(op, c, stmts, emitted) ==
  /\ Event
  /\ Room(Len(stmts))
  /\ dbQueue' = dbQueue \o Issued(stmts, emitted)
  /\ last' = Step(op, c, "-", "ok")
  /\ sent' = emitted
  /\ board' = SeenWithOwn(op, c, stmts, emitted)
  /\ res' = NoData
  /\ UNCHANGED <<sockets, drawings, nextId, user_sessions, faults, now>>

\* --------------------------------------------------------- user_join
\* ValidUserData without the check of the username
ValidUserDataAnyName(ud) == ~IsMissing(ud)

\* !userData || !userData.username
ValidUserData(ud) == ~IsMissing(ud) /\ ud.username # ""

\* function updateOnlineUsers(): db.all(SELECT ...), io.emit in its callback
UpdateOnlineUsersStmt(c, cause) ==
  Stmt("SELECT user_sessions", "updateOnlineUsers", c, [cause |-> cause])

UserJoin(c, ud) ==
  /\ sockets[c] = "open"
  /\ IF ~ValidUserData(ud)
       THEN Drop(c, "invalid user")
       ELSE /\ userData' = [userData EXCEPT ![c] = ud]
            /\ Schedule("user_join", c,
                 << Stmt("INSERT OR REPLACE user_sessions", "user_join", c,
                         [username |-> ud.username, role |-> ud.role, socket_id |-> c]),
                    UpdateOnlineUsersStmt(c, "user_join") >>,
                 BroadcastEmit(NoneSent, c,
                   Msg("user_joined", [username |-> ud.username, role |-> ud.role])))

\* ----------------------------------------------------------- drawing
\* ValidDrawing without the check of from and to
ValidDrawingAnyGeometry(data) == ~IsMissing(data)

\* !data || !data.from || !data.to
ValidDrawing(data) == ~IsMissing(data) /\ data.from # Undefined /\ data.to # Undefined

Drawing(c, data) ==
  /\ sockets[c] = "open"
  /\ IF IsMissing(userData[c])
       THEN Drop(c, "unauthorized")
       ELSE IF ~ValidDrawing(data)
         THEN Drop(c, "invalid")
         ELSE LET drawingData == Stamp(data, userData[c].username) IN
              /\ InsertRoom
              /\ UNCHANGED userData
              /\ Schedule("drawing", c,
                   << Stmt("INSERT drawings", "drawing", c,
                           [type |-> "drawing", data |-> JSONstringify(drawingData),
                            user_id |-> userData[c].username]) >>,
                   BroadcastEmit(NoneSent, c, Msg("drawing", drawingData)))

\* -------------------------------------------------------------- text
ValidText(data) == ~IsMissing(data) /\ data.text # "" /\ data.id # 0

Text(c, data) ==
  /\ sockets[c] = "open"
  /\ IF IsMissing(userData[c])
       THEN Drop(c, "unauthorized")
       ELSE IF ~ValidText(data)
         THEN Drop(c, "invalid")
         ELSE LET textData == Stamp(data, userData[c].username) IN
              /\ InsertRoom
              /\ UNCHANGED userData
              /\ Schedule("text", c,
                   << Stmt("INSERT drawings", "text", c,
                           [type |-> "text", data |-> JSONstringify(textData),
                            user_id |-> userData[c].username]) >>,
                   BroadcastEmit(NoneSent, c, Msg("text", textData)))

\* ---------------------------------------- textUpdate, textMove, textDelete
HasId(data) == ~IsMissing(data) /\ data.id # 0

\* canEdit / canMove / canDelete
CanMutate(ud, data) == ud.role = Administrator \/ ud.username = data.owner

\* socket.emit('error', { message })
ErrorMsg(text) == Msg("error", [message |-> text])

\* textUpdate and textMove differ in the event name and the error texts only
TextChange(ev, c, data) ==
  /\ sockets[c] = "open"
  /\ IF IsMissing(userData[c])
       THEN Drop(c, "unauthorized")
       ELSE IF ~HasId(data)
         THEN Drop(c, "invalid")
         ELSE IF ~CanMutate(userData[c], data)
           THEN Return(ev, c, "denied",
                       SocketEmit(NoneSent, c, ErrorMsg("no permission")))
           ELSE LET updateData == Stamp(data, userData[c].username) IN
                /\ UNCHANGED userData
                /\ Schedule(ev, c,
                     << Stmt("UPDATE drawings", ev, c,
                             [data |-> JSONstringify(updateData), id |-> data.id]) >>,
                     BroadcastEmit(NoneSent, c, Msg(ev, updateData)))

TextUpdate(c, data) == TextChange("textUpdate", c, data)

TextMove(c, data) == TextChange("textMove", c, data)

TextDelete(c, data) ==
  /\ sockets[c] = "open"
  /\ IF IsMissing(userData[c])
       THEN Drop(c, "unauthorized")
       ELSE IF ~HasId(data)
         THEN Drop(c, "invalid")
         ELSE IF ~CanMutate(userData[c], data)
           THEN Return("textDelete", c, "denied",
                       SocketEmit(NoneSent, c, ErrorMsg("no permission")))
           ELSE /\ UNCHANGED userData
                /\ Schedule("textDelete", c,
                     << Stmt("DELETE drawings WHERE id", "textDelete", c,
                             [id |-> data.id]) >>,
                     BroadcastEmit(NoneSent, c, Msg("textDelete", [id |-> data.id])))

\* ------------------------------------------------------------- clear
\* MayClear without the check of the role
MayClearAnyRole(ud) == TRUE

\* socket.userData.role !== 'Администратор' is refused
MayClear(ud) == ud.role = Administrator

Clear(c) ==
  /\ sockets[c] = "open"
  /\ IF IsMissing(userData[c])
       THEN Drop(c, "unauthorized")
       ELSE IF ~MayClear(userData[c])
         THEN Return("clear", c, "denied",
                     SocketEmit(NoneSent, c, Msg("clear_error", [message |-> "admin only"])))
         ELSE /\ UNCHANGED userData
              /\ Schedule("clear", c,
                   << Stmt("DELETE drawings", "clear", c, NoData) >>, NoneSent)

\* -------------------------------------------------------------- ping
Ping(c) ==
  /\ sockets[c] = "open"
  /\ Return("ping", c, "ok", SocketEmit(NoneSent, c, Msg("pong", NoData)))

\* -------------------------------------------------------- disconnect
\* fits: the queue of the model has room for the two statements
Hangup(c, fits) ==
  /\ sockets[c] = "open"
  /\ sockets' = [sockets EXCEPT ![c] = "closed"]
  /\ res' = NoData
  /\ UNCHANGED <<userData, drawings, nextId, user_sessions, faults, events, now>>
  /\ IF IsMissing(userData[c])
       THEN /\ last' = Step("disconnect", c, "-", "anonymous")
            /\ sent' = NoneSent
            /\ UNCHANGED <<dbQueue, board>>
       ELSE LET emitted ==
                  BroadcastEmit(NoneSent, c,
                    Msg("user_left", [username |-> userData[c].username,
                                      role |-> userData[c].role]))
            IN
            /\ fits
            /\ dbQueue' = dbQueue \o
                 Issued(<< Stmt("DELETE user_sessions WHERE socket_id", "disconnect", c,
                                [socket_id |-> c]),
                           UpdateOnlineUsersStmt(c, "disconnect") >>, emitted)
            /\ last' = Step("disconnect", c, "-", "ok")
            /\ sent' = emitted
            /\ board' = Seen(emitted)

Disconnect(c) == Hangup(c, Room(2))

\* ---------------------------------------------------- REST endpoints
\* a request is not bound to a socket: its statements carry connection 0
Http == 0

Response(status, body) == [status |-> status, body |-> body]

\* a request handler that answers at once
Respond(op, outcome, response) ==
  /\ last' = Step(op, Http, "-", outcome)
  /\ sent' = NoneSent
  /\ UNCHANGED board
  /\ res' = response
  /\ UNCHANGED <<sockets, userData, drawings, nextId, user_sessions, dbQueue, faults,
                 events, now>>

DefaultLimit == 1000

\* parseInt(req.query.limit) || 1000
Limit(q) == IF q.limit = 0 THEN DefaultLimit ELSE q.limit

\* parseInt(req.query.offset) || 0
Offset(q) == q.offset

\* app.get('/api/drawings')
ApiDrawings(q) ==
  /\ UNCHANGED userData
  /\ Schedule("GET /api/drawings", Http,
       << Stmt("SELECT drawings", "GET /api/drawings", Http,
               [limit |-> Limit(q), offset |-> Offset(q)]) >>, NoneSent)

\* app.post('/api/save')
ApiSave(body) ==
  IF body.type = "" \/ IsMissing(body.data)
    THEN Respond("POST /api/save", "bad request",
                 Response(400, [success |-> FALSE, error |-> "Missing required fields"]))
    ELSE /\ InsertRoom
         /\ UNCHANGED userData
         /\ Schedule("POST /api/save", Http,
              << Stmt("INSERT drawings", "POST /api/save", Http,
                      [type |-> body.type, data |-> JSONstringify(body.data),
                       user_id |-> IF body.userId = Undefined THEN "unknown"
                                                               ELSE body.userId]) >>,
              NoneSent)

\* MayWipe without the check of the role
MayWipeAnyRole(body) == TRUE

\* role !== 'Администратор' is refused
MayWipe(body) == body.role = Administrator

\* app.delete('/api/clear')
ApiClear(body) ==
  IF ~MayWipe(body)
    THEN Respond("DELETE /api/clear", "forbidden",
                 Response(403, [success |-> FALSE, error |-> "admin only"]))
    ELSE /\ UNCHANGED userData
         /\ Schedule("DELETE /api/clear", Http,
              << Stmt("DELETE drawings", "DELETE /api/clear", Http, NoData) >>, NoneSent)

\* role !== 'Администратор' && userId !== owner is refused
MayRemove(body) == body.role = Administrator \/ body.userId = body.owner

\* app.delete('/api/drawing/:id'); the route matches only with an id
ApiDeleteDrawing(id, body) ==
  IF ~MayRemove(body)
    THEN Respond("DELETE /api/drawing/:id", "forbidden",
                 Response(403, [success |-> FALSE, error |-> "no permission"]))
    ELSE /\ UNCHANGED userData
         /\ Schedule("DELETE /api/drawing/:id", Http,
              << Stmt("DELETE drawings WHERE id", "DELETE /api/drawing/:id", Http,
                      [id |-> id]) >>, NoneSent)

\* CURRENT_TIMESTAMP moves on to the next second
Tick ==
  /\ now < MaxNow
  /\ now' = now + 1
  /\ last' = Step("tick", Http, "-", "ok")
  /\ sent' = NoneSent
  /\ UNCHANGED board
  /\ res' = NoData
  /\ UNCHANGED <<sockets, userData, drawings, nextId, user_sessions, dbQueue, faults,
                 events>>

\* ------------------------------------------------------ the session sweep
SecondsPerDay == 24 * 60 * 60

SecondsPerHour == 60 * 60

\* the run starts in the last second of a day (UTC), on a server that was
\* started on a whole hour
StartOfRun == SecondsPerDay - 1

\* the time in seconds, when the clock of the run shows t
Clock(t) == StartOfRun + t

\* CURRENT_TIMESTAMP: 'YYYY-MM-DD HH:MM:SS', as <<date, separator, time of day>>
SqlText(t) == <<t \div SecondsPerDay, " ", t % SecondsPerDay>>

\* toISOString(): 'YYYY-MM-DDTHH:MM:SS.sssZ'
IsoText(t) == <<t \div SecondsPerDay, "T", t % SecondsPerDay>>

\* the order of the separators as characters: ' ' is 0x20, 'T' is 0x54
SeparatorLess(a, b) == a = " " /\ b = "T"

\* the comparison of two TEXT values: character by character (dates and times
\* are digits of fixed width)
TextLess(a, b) ==
  \/ a[1] < b[1]
  \/ a[1] = b[1] /\ SeparatorLess(a[2], b[2])
  \/ a[1] = b[1] /\ a[2] = b[2] /\ a[3] < b[3]

\* setInterval(..., 60 * 60 * 1000): the clock reaches a whole hour since the
\* start of the server, and the sweep of the sessions older than 24 hours runs
Sweep ==
  /\ now < MaxNow
  /\ Clock(now + 1) % SecondsPerHour = 0
  /\ now' = now + 1
  /\ dbQueue' = Append(dbQueue,
       Stmt("DELETE user_sessions WHERE connected_at <", "sweep", Http,
            [cutoff |-> IsoText(Clock(now + 1) - SecondsPerDay)]))
  /\ last' = Step("sweep", Http, "-", "ok")
  /\ sent' = NoneSent
  /\ UNCHANGED board
  /\ res' = NoData
  /\ UNCHANGED <<sockets, userData, drawings, nextId, user_sessions, faults, events>>

\* ------------------------------------------------- the database engine
\* DrawingsAfter with an UPDATE that also hands the row to the user who changed it
DrawingsAfterReowning(op) ==
  CASE op.sql = "INSERT drawings" ->
         Append(drawings, [id |-> nextId, type |-> op.arg.type, data |-> op.arg.data,
                           user_id |-> op.arg.user_id, created_at |-> now])
    [] op.sql = "UPDATE drawings" ->
         [k \in 1..Len(drawings) |->
            IF drawings[k].id = op.arg.id
              THEN [drawings[k] EXCEPT !.data = op.arg.data,
                                       !.user_id = userData[op.conn].username]
              ELSE drawings[k]]
    [] op.sql = "DELETE drawings WHERE id" ->
         SelectSeq(drawings, LAMBDA r : r.id # op.arg.id)
    [] op.sql = "DELETE drawings" -> <<>>
    [] OTHER -> drawings

\* the drawings table after the statement ran successfully
DrawingsAfter(op) ==
  CASE op.sql = "INSERT drawings" ->
         Append(drawings, [id |-> nextId, type |-> op.arg.type, data |-> op.arg.data,
                           user_id |-> op.arg.user_id, created_at |-> now])
    [] op.sql = "UPDATE drawings" ->
         [k \in 1..Len(drawings) |->
            IF drawings[k].id = op.arg.id
              THEN [drawings[k] EXCEPT !.data = op.arg.data]
              ELSE drawings[k]]
    [] op.sql = "DELETE drawings WHERE id" ->
         SelectSeq(drawings, LAMBDA r : r.id # op.arg.id)
    [] op.sql = "DELETE drawings" -> <<>>
    [] OTHER -> drawings

NextIdAfter(op) == IF op.sql = "INSERT drawings" THEN nextId + 1 ELSE nextId

\* the row was connected before the cutoff: connected_at < ?, a comparison of
\* the text of CURRENT_TIMESTAMP with the text of toISOString()
Swept(row, cutoff) == TextLess(SqlText(Clock(row.connected_at)), cutoff)

\* a plain INSERT into a table without the UNIQUE constraint
PlainInsert(rows, row) == Append(rows, row)

\* socket_id is UNIQUE: INSERT OR REPLACE first deletes the row in conflict
InsertOrReplace(rows, row) ==
  Append(SelectSeq(rows, LAMBDA r : r.socket_id # row.socket_id), row)

SessionsAfter(op) ==
  CASE op.sql = "INSERT OR REPLACE user_sessions" ->
         InsertOrReplace(user_sessions,
           [username |-> op.arg.username, role |-> op.arg.role,
            socket_id |-> op.arg.socket_id, connected_at |-> now])
    [] op.sql = "DELETE user_sessions WHERE socket_id" ->
         SelectSeq(user_sessions, LAMBDA r : r.socket_id # op.arg.socket_id)
    [] op.sql = "DELETE user_sessions WHERE connected_at <" ->
         SelectSeq(user_sessions, LAMBDA r : ~Swept(r, op.arg.cutoff))
    [] OTHER -> user_sessions

\* SELECT username, role, connected_at ... ORDER BY connected_at DESC
RowsAfter(op) ==
  IF op.sql = "SELECT user_sessions"
    THEN [k \in 1..Len(user_sessions) |->
            [username |-> Reverse(user_sessions)[k].username,
             role |-> Reverse(user_sessions)[k].role]]
    ELSE <<>>

\* callbacks that, for this outcome, only write to the console or do nothing
LogsOnly(cb, phase) ==
  \/ cb \in {"user_join", "drawing", "text", "disconnect"}
  \/ cb \in {"textUpdate", "textMove", "textDelete"} /\ phase = "ok"
  \/ cb = "updateOnlineUsers" /\ phase = "err"
  \/ cb = "sweep" /\ phase = "err"

\* this.changes: the number of rows the statement deletes
Changes(op) ==
  CASE op.sql = "DELETE drawings WHERE id" ->
         IF \E k \in 1..Len(drawings) : drawings[k].id = op.arg.id THEN 1 ELSE 0
    [] op.sql = "DELETE user_sessions WHERE connected_at <" ->
         Len(SelectSeq(user_sessions, LAMBDA r : Swept(r, op.arg.cutoff)))
    [] OTHER -> 0

\* this.lastID: the id the INSERT gives to its row
LastID(op) == IF op.sql = "INSERT drawings" THEN nextId ELSE 0

\* what is left of the queue once statement i has been executed: a statement
\* whose callback only logs is retired at once
Executed(i, phase, rows) ==
  IF LogsOnly(dbQueue[i].cb, phase)
    THEN RemoveAt(dbQueue, i)
    ELSE [dbQueue EXCEPT ![i] =
            [@ EXCEPT !.phase = phase, !.rows = rows,
                      !.changes = IF phase = "ok" THEN Changes(dbQueue[i]) ELSE 0,
                      !.lastID = IF phase = "ok" THEN LastID(dbQueue[i]) ELSE 0]]

\* how the execution ended: "replaced" when INSERT OR REPLACE found a row of
\* the same socket_id
ExecOutcome(op) ==
  IF /\ op.sql = "INSERT OR REPLACE user_sessions"
     /\ \E k \in 1..Len(user_sessions) : user_sessions[k].socket_id = op.arg.socket_id
    THEN "replaced"
    ELSE "ok"

\* a worker thread executes statement i
DbExec(i) ==
  /\ i \in 1..Len(dbQueue)
  /\ dbQueue[i].phase = "queued"
  /\ dbQueue[i].sql # "SELECT drawings"
  /\ drawings' = DrawingsAfter(dbQueue[i])
  /\ nextId' = NextIdAfter(dbQueue[i])
  /\ user_sessions' = SessionsAfter(dbQueue[i])
  /\ dbQueue' = Executed(i, "ok", RowsAfter(dbQueue[i]))
  /\ last' = Step("exec", dbQueue[i].conn, dbQueue[i].cb, ExecOutcome(dbQueue[i]))
  /\ sent' = NoneSent
  /\ UNCHANGED board
  /\ res' = NoData
  /\ UNCHANGED <<sockets, userData, faults, events, now>>

Min(a, b) == IF a <= b THEN a ELSE b

\* the orderings of 1..n
Orderings(n) ==
  {p \in [1..n -> 1..n] : \A i, j \in 1..n : i # j => p[i] # p[j]}

\* ORDER BY created_at ASC: the rows in ascending created_at; SQL leaves the
\* order of rows with equal created_at open
OrderedByCreatedAt ==
  {[k \in 1..Len(drawings) |-> drawings[p[k]]] :
     p \in {q \in Orderings(Len(drawings)) :
              \A i, j \in 1..Len(drawings) :
                i < j => drawings[q[i]].created_at <= drawings[q[j]].created_at}}

\* LIMIT ? OFFSET ?
Page(rows, limit, offset) == SubSeq(rows, offset + 1, Min(Len(rows), offset + limit))

\* a worker thread executes SELECT * FROM drawings ORDER BY created_at ASC
DbSelectDrawings(i) ==
  /\ i \in 1..Len(dbQueue)
  /\ dbQueue[i].phase = "queued"
  /\ dbQueue[i].sql = "SELECT drawings"
  /\ \E rows \in OrderedByCreatedAt :
       dbQueue' = Executed(i, "ok", Page(rows, dbQueue[i].arg.limit, dbQueue[i].arg.offset))
  /\ last' = Step("exec", dbQueue[i].conn, dbQueue[i].cb, "ok")
  /\ sent' = NoneSent
  /\ UNCHANGED board
  /\ res' = NoData
  /\ UNCHANGED <<sockets, userData, drawings, nextId, user_sessions, faults, events, now>>

\* statement i fails with a storage fault: the tables are untouched
DbFault(i) ==
  /\ i \in 1..Len(dbQueue)
  /\ dbQueue[i].phase = "queued"
  /\ faults < MaxFaults
  /\ faults' = faults + 1
  /\ dbQueue' = Executed(i, "err", <<>>)
  /\ last' = Step("exec", dbQueue[i].conn, dbQueue[i].cb, "err")
  /\ sent' = NoneSent
  /\ UNCHANGED board
  /\ res' = NoData
  /\ UNCHANGED <<sockets, userData, drawings, nextId, user_sessions, events, now>>

\* what the callback of an executed statement emits
CallbackEmits(op) ==
  CASE op.cb \in {"textUpdate", "textMove", "textDelete"} ->
         IF op.phase = "err"
           THEN SocketEmit(NoneSent, op.conn, ErrorMsg("database error"))
           ELSE NoneSent
    [] op.cb = "clear" ->
         IF op.phase = "err"
           THEN SocketEmit(NoneSent, op.conn,
                           Msg("clear_error", [message |-> "database error"]))
           ELSE IoEmit(IoEmit(NoneSent, Msg("clear", NoData)),
                       Msg("notification",
                           [message |-> userData[op.conn].username, type |-> "info"]))
    [] op.cb = "updateOnlineUsers" ->
         IF op.phase = "err"
           THEN NoneSent
           ELSE IoEmit(NoneSent, Msg("online_users_update", [rows |-> op.rows]))
    [] op.cb = "DELETE /api/clear" ->
         IF op.phase = "err" THEN NoneSent ELSE IoEmit(NoneSent, Msg("clear", NoData))
    [] op.cb = "DELETE /api/drawing/:id" ->
         IF op.phase = "err" \/ op.changes = 0
           THEN NoneSent
           ELSE IoEmit(NoneSent, Msg("textDelete", [id |-> op.arg.id]))
    [] OTHER -> NoneSent

\* JSON.parse of a string written by JSON.stringify
JSONparse(s) == [k \in {p[1] : p \in s} |-> (CHOOSE p \in s : p[1] = k)[2]]

\* rows.map(row => ({ id, type, data: JSON.parse(row.data), user_id, created_at }))
Parsed(rows) ==
  [k \in 1..Len(rows) |-> [rows[k] EXCEPT !.data = JSONparse(rows[k].data)]]

\* what the callback of an executed statement answers to the HTTP client
CallbackReplies(op) ==
  CASE op.cb = "GET /api/drawings" ->
         IF op.phase = "err"
           THEN Response(500, [error |-> "Failed to fetch drawings"])
           ELSE Response(200, Parsed(op.rows))
    [] op.cb = "POST /api/save" ->
         IF op.phase = "err"
           THEN Response(500, [success |-> FALSE, error |-> "Database error"])
           ELSE Response(200, [success |-> TRUE, id |-> op.lastID])
    [] op.cb = "DELETE /api/clear" ->
         IF op.phase = "err"
           THEN Response(500, [success |-> FALSE, error |-> "Database error"])
           ELSE Response(200, [success |-> TRUE])
    [] op.cb = "DELETE /api/drawing/:id" ->
         IF op.phase = "err"
           THEN Response(500, [success |-> FALSE, error |-> "Database error"])
           ELSE IF op.changes = 0
             THEN Response(404, [success |-> FALSE, error |-> "Drawing not found"])
             ELSE Response(200, [success |-> TRUE])
    [] OTHER -> NoData

\* the statements the callback of an executed statement issues
CallbackIssues(op) ==
  IF op.cb = "sweep" /\ op.phase = "ok" /\ op.changes > 0
    THEN <<UpdateOnlineUsersStmt(Http, "sweep")>>
    ELSE <<>>

\* the event loop runs the callback of statement i
DbCallback(i) ==
  /\ i \in 1..Len(dbQueue)
  /\ dbQueue[i].phase # "queued"
  /\ dbQueue' = RemoveAt(dbQueue, i) \o CallbackIssues(dbQueue[i])
  /\ last' = Step("callback", dbQueue[i].conn, dbQueue[i].cb, dbQueue[i].phase)
  /\ sent' = CallbackEmits(dbQueue[i])
  /\ board' = Seen(CallbackEmits(dbQueue[i]))
  /\ res' = CallbackReplies(dbQueue[i])
  /\ UNCHANGED <<sockets, userData, drawings, nextId, user_sessions, faults, events, now>>

Next ==
  \/ \E c \in Conns : \E ud \in JoinInputs(c) : UserJoin(c, ud)
  \/ \E c \in Conns, data \in DrawingInputs : Drawing(c, data)
  \/ \E c \in Conns, data \in TextInputs : Text(c, data)
  \/ \E c \in Conns, data \in ChangeInputs : TextUpdate(c, data)
  \/ \E c \in Conns, data \in ChangeInputs : TextMove(c, data)
  \/ \E c \in Conns, data \in DeleteInputs : TextDelete(c, data)
  \/ \E c \in Conns : Clear(c)
  \/ \E c \in Conns : Ping(c)
  \/ \E c \in Conns : Disconnect(c)
  \/ \E i \in 1..MaxPending : DbExec(i)
  \/ \E i \in 1..MaxPending : DbCallback(i)

\* the storage works
Spec == Init /\ [][Next]_vars

\* the storage may fault
NextOrFault == Next \/ \E i \in 1..MaxPending : DbFault(i)

FaultSpec == Init /\ [][NextOrFault]_vars

\* the REST requests over several seconds, with the socket events that join a
\* participant and update a stored text
HttpNext ==
  \/ \E c \in Conns : \E ud \in JoinInputs(c) : UserJoin(c, ud)
  \/ \E c \in Conns, data \in ChangeInputs : TextUpdate(c, data)
  \/ \E i \in 1..MaxPending : DbExec(i)
  \/ \E i \in 1..MaxPending : DbCallback(i)
  \/ \E q \in Queries : ApiDrawings(q)
  \/ \E body \in SaveInputs : ApiSave(body)
  \/ \E body \in WipeInputs : ApiClear(body)
  \/ \E id \in 1..MaxId, body \in RemoveInputs : ApiDeleteDrawing(id, body)
  \/ \E i \in 1..MaxPending : DbSelectDrawings(i)
  \/ Tick

HttpSpec == Init /\ [][HttpNext]_vars

\* A session in progress: Ann (a pupil) and Cara (the teacher) have joined, the
\* board is empty, and the board of either client is followed.  A participant
\* may leave at any moment, also while statements are in flight.
SessionUser(c) == IF c = 1 THEN "Ann" ELSE "Cara"

SessionInit ==
  /\ sockets = [c \in Conns |-> "open"]
  /\ userData = [c \in Conns |-> [username |-> SessionUser(c), role |-> RoleOf(SessionUser(c))]]
  /\ drawings = <<>>
  /\ nextId = 1
  /\ user_sessions =
       [c \in Conns |->
          [username |-> SessionUser(c), role |-> RoleOf(SessionUser(c)), socket_id |-> c,
           connected_at |-> 0]]
  /\ dbQueue = <<>>
  /\ faults = 0
  /\ events = MaxEvents - MaxSessionEvents
  /\ last = Step("init", 0, "-", "none")
  /\ sent = NoneSent
  /\ now = 0
  /\ res = NoData
  /\ board = Boards(TRUE)

\* the valid payloads of a session; in some the client itself names a user and
\* an owner
SessionDrawingInputs == [from : {"p"}, to : {"q"}] \cup [from : {"p"}, to : {"q"}, userId : {"Bob"}]

SessionTextInputs ==
  [id : 1..MaxTextId, text : {"x"}, owner : {Undefined}]
    \cup [id : 1..MaxTextId, text : {"x"}, owner : {"Bob"}, userId : {"Bob"}]

\* changes and deletions that both participants are permitted
SessionChangeInputs == [id : 1..MaxTextId, text : {"y"}, owner : {"Ann"}]

SessionDeleteInputs == [id : 1..MaxTextId, owner : {"Ann"}]

SessionNext ==
  \/ \E c \in Conns, data \in SessionDrawingInputs : Drawing(c, data)
  \/ \E c \in Conns, data \in SessionTextInputs : Text(c, data)
  \/ \E c \in Conns, data \in SessionChangeInputs : TextUpdate(c, data)
  \/ \E c \in Conns, data \in SessionChangeInputs : TextMove(c, data)
  \/ \E c \in Conns, data \in SessionDeleteInputs : TextDelete(c, data)
  \/ \E c \in Conns : Clear(c)
  \/ \E c \in Conns : Hangup(c, TRUE)
  \/ \E i \in 1..MaxPending + 2 * MaxConns : DbExec(i)
  \/ \E i \in 1..MaxPending + 2 * MaxConns : DbCallback(i)

SessionSpec == SessionInit /\ [][SessionNext]_vars

\* the session in progress over midnight: the participants may leave, and the
\* hourly sweep runs
SweepNext ==
  \/ \E c \in Conns : Hangup(c, TRUE)
  \/ Sweep
  \/ \E i \in 1..2 * MaxConns + 1 : DbExec(i)
  \/ \E i \in 1..2 * MaxConns + 1 : DbCallback(i)

SweepSpec == SessionInit /\ [][SweepNext]_vars

\* ======================================================================
\* Properties
\* ======================================================================
Count(q, Test(_)) == Len(SelectSeq(q, Test))

\* the number of messages of event ev emitted to d in the last step
Received(d, ev) == Count(sent[d], LAMBDA m : m.ev = ev)

Others(c) == Conns \ {c}

\* the rows of drawings with this id
RowsWithId(id) == {k \in 1..Len(drawings) : drawings[k].id = id}

\* the rows of user_sessions bound to connection c
BindingsOf(c) == {k \in 1..Len(user_sessions) : user_sessions[k].socket_id = c}

\* C1: a drawing event with valid geometry from an Active connection is never
\* delivered back to that connection and is delivered exactly once, stamped
\* with the sender's username, to every other Active connection.
C1_DrawSenderExclusive ==
  (last.op = "drawing" /\ last.outcome = "ok") =>
    /\ sent[last.conn] = <<>>
    /\ \A d \in Others(last.conn) :
         Active(d) =>
           /\ Received(d, "drawing") = 1
           /\ Len(sent[d]) = 1
           /\ sent[d][1].data.userId = userData[last.conn].username

C1_Witness ==
  /\ last.op = "drawing"
  /\ last.outcome = "ok"
  /\ \E d \in Others(last.conn) : Active(d) /\ Received(d, "drawing") = 1

\* C2: when the clear of an Administrator succeeds, the clear notice goes to
\* every connection, the issuer included, and the drawings table holds no row
\* at the point the notice is sent.
C2_ClearNoticeStoreEmpty ==
  (last.op = "callback" /\ last.cb = "clear" /\ last.outcome = "ok") =>
    /\ \A d \in Conns : sockets[d] = "open" => Received(d, "clear") = 1
    /\ drawings = <<>>

\* C3: a clear from an Active connection that is not Administrator sends one
\* clear_error to the issuer and nothing to anybody else, schedules no
\* statement and leaves the drawings table as it is.
C3_ClearDenied ==
  [][\A c \in Conns :
       (Active(c) /\ userData[c].role # Administrator /\ Clear(c)) =>
         /\ Len(sent'[c]) = 1
         /\ sent'[c][1].ev = "clear_error"
         /\ \A d \in Others(c) : sent'[d] = <<>>
         /\ drawings' = drawings
         /\ dbQueue' = dbQueue]_vars

C3_Witness ==
  /\ last.op = "clear"
  /\ last.outcome = "denied"
  /\ drawings # <<>>
  /\ Received(last.conn, "clear_error") = 1
  /\ \E d \in Others(last.conn) : Active(d)

\* the stored item data.id is a text that belongs to somebody other than c
OwnedByOther(c, data) ==
  \E k \in RowsWithId(data.id) :
    drawings[k].type = "text" /\ drawings[k].user_id # userData[c].username

\* the denial of an event of c: an error notice to c, nothing to the others,
\* no statement scheduled, the table untouched
Denied(c) ==
  /\ Len(sent'[c]) = 1
  /\ sent'[c][1].ev = "error"
  /\ \A d \in Others(c) : sent'[d] = <<>>
  /\ dbQueue' = dbQueue
  /\ drawings' = drawings

\* C4: a textUpdate or textMove of a Standard participant on a text stored
\* for another participant is denied whatever owner the request carries.
C4_ChangeOfForeignTextDenied ==
  [][\A c \in Conns : \A data \in ChangeInputs :
       (/\ Active(c)
        /\ userData[c].role = Standard
        /\ HasId(data)
        /\ OwnedByOther(c, data)
        /\ (TextUpdate(c, data) \/ TextMove(c, data))) => Denied(c)]_vars

\* C5: a textDelete of a Standard participant on a text stored for another
\* participant is denied: nothing is scheduled for removal, the error notice
\* goes to the originator only and no textDelete is broadcast.
C5_DeleteOfForeignTextDenied ==
  [][\A c \in Conns : \A data \in DeleteInputs :
       (/\ Active(c)
        /\ userData[c].role = Standard
        /\ HasId(data)
        /\ OwnedByOther(c, data)
        /\ TextDelete(c, data)) => Denied(c)]_vars

\* the acceptance of an event of c: one statement is scheduled and the event
\* is broadcast to every other Active connection, not to c
Accepted(c, ev) ==
  /\ Len(dbQueue') = Len(dbQueue) + 1
  /\ dbQueue'[Len(dbQueue')].cb = ev
  /\ sent'[c] = <<>>
  /\ \A d \in Others(c) : Active(d) => (Len(sent'[d]) = 1 /\ sent'[d][1].ev = ev)

\* c is Administrator or the stored owner of the text data.id
OwnerOrAdmin(c, data) ==
  \E k \in RowsWithId(data.id) :
    /\ drawings[k].type = "text"
    /\ \/ userData[c].role = Administrator
       \/ drawings[k].user_id = userData[c].username

\* C6: a textUpdate, textMove or textDelete is accepted whenever the sender
\* is Administrator or the stored owner of the text, whatever owner the
\* request carries.
C6_OwnerOrAdminAccepted ==
  [][\A c \in Conns :
       Active(c) =>
         /\ \A data \in ChangeInputs :
              (HasId(data) /\ OwnerOrAdmin(c, data)) =>
                /\ TextUpdate(c, data) => Accepted(c, "textUpdate")
                /\ TextMove(c, data) => Accepted(c, "textMove")
         /\ \A data \in DeleteInputs :
              (HasId(data) /\ OwnerOrAdmin(c, data)) =>
                (TextDelete(c, data) => Accepted(c, "textDelete"))]_vars

\* no statement of connection c is in flight
Settled(c) == \A k \in 1..Len(dbQueue) : dbQueue[k].conn # c

\* the username of c is bound on no other connection
OnlyNameOf(c) ==
  \A d \in Others(c) :
    IsMissing(userData[d]) \/ userData[d].username # userData[c].username

\* C7: when a joined participant disconnects, user_left goes to every
\* remaining connection, the snapshot read for that disconnect does not list
\* the participant, and the binding is gone once the statements of the
\* connection have run.
C7_DisconnectRemovesParticipant ==
  /\ (last.op = "disconnect" /\ last.outcome = "ok") =>
       \A d \in Others(last.conn) :
         sockets[d] = "open" => Received(d, "user_left") = 1
  /\ \A k \in 1..Len(dbQueue) :
       (/\ dbQueue[k].cb = "updateOnlineUsers"
        /\ dbQueue[k].arg.cause = "disconnect"
        /\ dbQueue[k].phase = "ok"
        /\ OnlyNameOf(dbQueue[k].conn)) =>
         \A j \in 1..Len(dbQueue[k].rows) :
           dbQueue[k].rows[j].username # userData[dbQueue[k].conn].username
  /\ \A c \in Conns :
       (sockets[c] = "closed" /\ Settled(c)) => BindingsOf(c) = {}

\* C8: user_sessions holds at most one row per socket_id in every reachable
\* state, also after a connection has joined more than once.
C8_OneBindingPerConnection ==
  \A c \in Conns : Cardinality(BindingsOf(c)) <= 1

C8_Witness ==
  /\ last.op = "exec"
  /\ last.cb = "user_join"
  /\ last.outcome = "replaced"
  /\ Cardinality(BindingsOf(last.conn)) = 1

\* an event of c other than user_join and ping
BoardEvent(c) ==
  \/ \E data \in DrawingInputs : Drawing(c, data)
  \/ \E data \in TextInputs : Text(c, data)
  \/ \E data \in ChangeInputs : TextUpdate(c, data) \/ TextMove(c, data)
  \/ \E data \in DeleteInputs : TextDelete(c, data)
  \/ Clear(c)
  \/ Disconnect(c)

\* nothing is stored, bound, scheduled or sent
Silent ==
  /\ sent' = NoneSent
  /\ drawings' = drawings
  /\ user_sessions' = user_sessions
  /\ userData' = userData
  /\ dbQueue' = dbQueue

\* C9 as stated: every event other than user_join on an Anonymous connection
\* is dropped silently, ping included.
C9_AnonymousEventsSilent ==
  [][\A c \in Conns :
       (Anonymous(c) /\ (BoardEvent(c) \/ Ping(c))) => Silent]_vars

\* C9 as amended: every event other than user_join and ping on an Anonymous
\* connection is dropped silently; a ping is answered with one pong to the
\* sender only and changes neither the store nor the registry.
C9_AnonymousBoardEventsSilent ==
  [][\A c \in Conns :
       Anonymous(c) =>
         /\ BoardEvent(c) => Silent
         /\ Ping(c) =>
              /\ Len(sent'[c]) = 1
              /\ sent'[c][1].ev = "pong"
              /\ \A d \in Others(c) : sent'[d] = <<>>
              /\ drawings' = drawings
              /\ user_sessions' = user_sessions
              /\ userData' = userData
              /\ dbQueue' = dbQueue]_vars

C9_Witness ==
  /\ last.op = "dropped"
  /\ last.outcome = "unauthorized"
  /\ Anonymous(last.conn)
  /\ \E d \in Others(last.conn) : Active(d)

\* C10: a user_join whose userData is missing or has an empty username leaves
\* the connection as it was (Anonymous stays Anonymous), binds nothing,
\* schedules nothing and sends neither user_joined nor a snapshot.
C10_InvalidJoinRejected ==
  [][\A c \in Conns : \A ud \in JoinInputs(c) :
       (/\ sockets[c] = "open"
        /\ (IsMissing(ud) \/ ud.username = "")
        /\ UserJoin(c, ud)) => Silent]_vars

C10_Witness ==
  /\ last.op = "dropped"
  /\ last.outcome = "invalid user"
  /\ Anonymous(last.conn)
  /\ BindingsOf(last.conn) = {}

\* C11: an accepted user_join of connection c sends user_joined to every
\* other connection and not to c; the snapshot read for that join lists the
\* participant who joined, and it is published to every connection, c included.
C11_JoinAnnouncedAndListed ==
  /\ (last.op = "user_join" /\ last.outcome = "ok") =>
       /\ sent[last.conn] = <<>>
       /\ \A d \in Others(last.conn) :
            sockets[d] = "open" => Received(d, "user_joined") = 1
  /\ \A k \in 1..Len(dbQueue) :
       (/\ dbQueue[k].cb = "updateOnlineUsers"
        /\ dbQueue[k].arg.cause = "user_join"
        /\ dbQueue[k].phase = "ok") =>
         \E j \in 1..Len(dbQueue[k].rows) :
           dbQueue[k].rows[j].username = userData[dbQueue[k].conn].username
  /\ (last.op = "callback" /\ last.cb = "updateOnlineUsers" /\ last.outcome = "ok") =>
       \A d \in Conns : sockets[d] = "open" => Received(d, "online_users_update") = 1

\* the callbacks of the statements that store a board event
BoardCallbacks == {"drawing", "text", "textUpdate", "textMove", "textDelete", "clear"}

\* the step that ends the handling of the failed statement i: its callback,
\* or the fault itself when the callback does no more than log it
FaultHandled(i) ==
  \/ DbFault(i) /\ LogsOnly(dbQueue[i].cb, "err")
  \/ DbCallback(i) /\ dbQueue[i].phase = "err"

\* an error notice is among the messages emitted to c in this step
Informed(c) ==
  \E k \in 1..Len(sent'[c]) : sent'[c][k].ev \in {"error", "clear_error"}

\* C12: when the statement of a drawing, text, textUpdate, textMove,
\* textDelete or clear event fails, the table is left as it was, the event has
\* not been emitted to any other connection, the originator gets an error
\* notice and its session stays Active.
C12_FaultAbortsAndInforms ==
  [][\A i \in 1..MaxPending :
       (i <= Len(dbQueue) /\ dbQueue[i].cb \in BoardCallbacks) =>
         /\ DbFault(i) => drawings' = drawings
         /\ FaultHandled(i) =>
              /\ dbQueue[i].fanout \ {dbQueue[i].conn} = {}
              /\ sockets[dbQueue[i].conn] = "open" =>
                   /\ Informed(dbQueue[i].conn)
                   /\ sockets'[dbQueue[i].conn] = "open"
                   /\ ~IsMissing(userData'[dbQueue[i].conn])]_vars

\* the sender of data passes the permission check of the handler
Permitted(c, data) ==
  userData[c].role = Administrator \/ userData[c].username = data.owner

\* C13: a permitted textUpdate, textMove or textDelete whose id matches no row
\* of drawings is not emitted to any other connection, and when its statement
\* has run the table is as it was and the originator has an error notice.
C13_MissingTargetNotFound ==
  [][/\ \A c \in Conns :
          Active(c) =>
            /\ \A data \in ChangeInputs :
                 (/\ HasId(data)
                  /\ Permitted(c, data)
                  /\ RowsWithId(data.id) = {}
                  /\ (TextUpdate(c, data) \/ TextMove(c, data))) =>
                   \A d \in Others(c) : sent'[d] = <<>>
            /\ \A data \in DeleteInputs :
                 (/\ HasId(data)
                  /\ Permitted(c, data)
                  /\ RowsWithId(data.id) = {}
                  /\ TextDelete(c, data)) =>
                   \A d \in Others(c) : sent'[d] = <<>>
     /\ \A i \in 1..MaxPending :
          (/\ i <= Len(dbQueue)
           /\ dbQueue[i].cb \in {"textUpdate", "textMove", "textDelete"}
           /\ RowsWithId(dbQueue[i].arg.id) = {}
           /\ DbExec(i)) =>
            /\ drawings' = drawings
            /\ sockets[dbQueue[i].conn] = "open" => Informed(dbQueue[i].conn)]_vars

\* the names of the events emitted to d in the last step, in order
EventsTo(d) == [k \in 1..Len(sent[d]) |-> sent[d][k].ev]

\* C14: the callback of a successful clear (the DELETE has run by then) emits
\* clear and then the notification to every other connection, and to the
\* issuing connection clear only.
C14_ClearThenNoticeToOthers ==
  (last.op = "callback" /\ last.cb = "clear" /\ last.outcome = "ok") =>
    \A d \in Conns :
      sockets[d] = "open" =>
        EventsTo(d) = IF d = last.conn THEN <<"clear">> ELSE <<"clear", "notification">>

\* ascending created_at, rows of the same created_at in ascending id
InCreationOrder(rows) ==
  \A i, j \in 1..Len(rows) :
    i < j =>
      \/ rows[i].created_at < rows[j].created_at
      \/ rows[i].created_at = rows[j].created_at /\ rows[i].id < rows[j].id

\* C15: GET /api/drawings without limit and offset reads exactly the rows
\* that were inserted and not deleted, each with the data written last, in
\* ascending created_at with equal created_at in ascending id, and answers
\* with them in that order.
C15_ListAllInCreationOrder ==
  [][\A i \in 1..MaxPending :
       (i <= Len(dbQueue) /\ dbQueue[i].cb = "GET /api/drawings") =>
         /\ (/\ dbQueue[i].arg.limit = DefaultLimit
             /\ dbQueue[i].arg.offset = 0
             /\ DbSelectDrawings(i)) =>
              /\ Len(dbQueue'[i].rows) = Len(drawings)
              /\ {dbQueue'[i].rows[k] : k \in 1..Len(drawings)}
                   = {drawings[k] : k \in 1..Len(drawings)}
              /\ InCreationOrder(dbQueue'[i].rows)
         /\ (dbQueue[i].phase = "ok" /\ DbCallback(i)) =>
              /\ res'.status = 200
              /\ Len(res'.body) = Len(dbQueue[i].rows)
              /\ InCreationOrder(res'.body)]_vars

\* the request is refused with this status: nothing is scheduled, stored or
\* emitted
Refused(status) ==
  /\ dbQueue' = dbQueue
  /\ drawings' = drawings
  /\ sent' = NoneSent
  /\ ~IsMissing(res')
  /\ res'.status = status

\* C16: DELETE /api/clear with a role other than Administrator is answered
\* with 403, stores and emits nothing; with the role Administrator its
\* statement empties drawings and its callback emits clear to every connection
\* and answers 200.
C16_WipeBoardLikeClear ==
  [][/\ \A body \in WipeInputs :
          (body.role # Administrator /\ ApiClear(body)) => Refused(403)
     /\ \A i \in 1..MaxPending :
          (i <= Len(dbQueue) /\ dbQueue[i].cb = "DELETE /api/clear") =>
            /\ DbExec(i) => drawings' = <<>>
            /\ (dbQueue[i].phase = "ok" /\ DbCallback(i)) =>
                 /\ \A d \in Conns :
                      sockets[d] = "open" => sent'[d] = <<Msg("clear", NoData)>>
                 /\ res'.status = 200]_vars

C16_Witness ==
  /\ last.op = "callback"
  /\ last.cb = "DELETE /api/clear"
  /\ last.outcome = "ok"
  /\ res.status = 200
  /\ \A d \in Conns : Received(d, "clear") = 1

\* C17: DELETE /api/drawing/:id of a caller who is neither Administrator nor
\* the user the row is stored for is answered with 403 and changes nothing;
\* an id that matches no row is answered with 404 and nothing is emitted;
\* otherwise exactly the row of that id is deleted, textDelete is emitted to
\* every connection and the answer is 200.
C17_RemoveItemChecked ==
  [][/\ \A id \in 1..MaxId, body \in RemoveInputs :
          (/\ body.role # Administrator
           /\ \E k \in RowsWithId(id) : drawings[k].user_id \notin {"unknown", body.userId}
           /\ ApiDeleteDrawing(id, body)) => Refused(403)
     /\ \A i \in 1..MaxPending :
          (i <= Len(dbQueue) /\ dbQueue[i].cb = "DELETE /api/drawing/:id") =>
            /\ DbExec(i) =>
                 drawings' = SelectSeq(drawings, LAMBDA r : r.id # dbQueue[i].arg.id)
            /\ (dbQueue[i].phase = "ok" /\ DbCallback(i)) =>
                 IF dbQueue[i].changes = 0
                   THEN sent' = NoneSent /\ res'.status = 404
                   ELSE /\ res'.status = 200
                        /\ \A d \in Conns :
                             sockets[d] = "open" =>
                               sent'[d] = <<Msg("textDelete", [id |-> dbQueue[i].arg.id])>>]_vars

\* the event of c stays with c: no statement is scheduled, the table is
\* untouched and nothing is emitted to another connection
Local(c) ==
  /\ dbQueue' = dbQueue
  /\ drawings' = drawings
  /\ \A d \in Others(c) : sent'[d] = <<>>

\* C18: a drawing without from or to, a text without text or id, a
\* textUpdate, textMove or textDelete without id or refused by the permission
\* check, and a clear of a sender who is not Administrator change no row and
\* reach no connection other than the sender's: a step that does not stay
\* local to c is not the handling of such an event of c.
C18_RejectedStaysLocal ==
  [][\A c \in Conns :
       (Active(c) /\ ~Local(c)) =>
         /\ \A data \in DrawingInputs :
              (IsMissing(data) \/ data.from = Undefined \/ data.to = Undefined) =>
                ~Drawing(c, data)
         /\ \A data \in TextInputs :
              (IsMissing(data) \/ data.text = "" \/ data.id = 0) => ~Text(c, data)
         /\ \A data \in ChangeInputs :
              (IsMissing(data) \/ data.id = 0 \/ ~Permitted(c, data)) =>
                ~(TextUpdate(c, data) \/ TextMove(c, data))
         /\ \A data \in DeleteInputs :
              (IsMissing(data) \/ data.id = 0 \/ ~Permitted(c, data)) =>
                ~TextDelete(c, data)
         /\ userData[c].role # Administrator => ~Clear(c)]_vars

C18_Witness ==
  /\ last.op = "dropped"
  /\ last.outcome = "invalid"
  /\ Active(last.conn)
  /\ drawings # <<>>
  /\ sent = NoneSent
  /\ \E d \in Others(last.conn) : Active(d)

\* the events a handler emits to the other connections when it issues the
\* statement that stores them
StoredEvents == {"drawing", "text", "textUpdate", "textMove", "textDelete"}

\* C19: when a drawing, text, textUpdate, textMove or textDelete event has
\* been emitted to another connection, its statement has run: it is no longer
\* waiting in the queue.
C19_PersistBeforeFanOut ==
  (/\ last.op \in StoredEvents
   /\ last.outcome = "ok"
   /\ \E d \in Others(last.conn) : Received(d, last.op) > 0) =>
    \A k \in 1..Len(dbQueue) :
      (dbQueue[k].conn = last.conn /\ dbQueue[k].cb = last.op) =>
        dbQueue[k].phase = "ok"

\* the statements of connection c that were issued before statement i
EarlierOf(i) ==
  {j \in 1..(i - 1) : dbQueue[j].conn = dbQueue[i].conn}

\* C20: the events of one connection take effect in the order they were
\* received: a statement runs only when the earlier statements of the same
\* connection have run, and an event is emitted to the other connections
\* only when no earlier event of the same connection still waits to be
\* emitted (the clear emitted by the callback of its DELETE).
C20_PerConnectionOrder ==
  [][/\ \A i \in 1..MaxPending :
          (i <= Len(dbQueue) /\ dbQueue[i].cb \in StoredEvents \cup {"clear"} /\ DbExec(i)) =>
            \A j \in EarlierOf(i) :
              dbQueue[j].cb \in StoredEvents \cup {"clear"} => dbQueue[j].phase # "queued"
     /\ \A c \in Conns :
          (/\ last'.conn = c
           /\ last'.op \in StoredEvents
           /\ last'.outcome = "ok"
           /\ \E d \in Others(c) : sent'[d] # <<>>) =>
            \A k \in 1..Len(dbQueue) :
              ~(dbQueue[k].conn = c /\ dbQueue[k].cb = "clear")]_vars

\* the statements disconnect itself issues for connection c
OfDisconnect(op) ==
  \/ op.cb = "disconnect"
  \/ op.cb = "updateOnlineUsers" /\ op.arg.cause = "disconnect"

\* C21: the side effects of a disconnect (removal of the binding, the
\* participant-left broadcast, the republished list) run once, and once a
\* connection has disconnected, no event of it that is still in flight (a clear
\* whose statement has not completed, say) changes the store or sends a message
\* to any connection.
C21_NothingAfterDisconnect ==
  [][\A c \in Conns :
       /\ Count(dbQueue', LAMBDA op : op.conn = c /\ op.cb = "disconnect") <= 1
       /\ \A i \in 1..Len(dbQueue) :
            (/\ sockets[c] = "closed"
             /\ dbQueue[i].conn = c
             /\ ~OfDisconnect(dbQueue[i])
             /\ (DbExec(i) \/ DbCallback(i)))
              => /\ drawings' = drawings
                 /\ user_sessions' = user_sessions
                 /\ sent' = NoneSent]_vars

\* no statement is pending (a step emits and delivers at once)
Quiescent == dbQueue = <<>>

\* the payload of a textUpdate or textMove
IsUpdate(json) == <<"text", "y">> \in json

\* C22: when two connections both send a permitted update for the same text,
\* then after both statements have completed the stored payload is the payload
\* of the update received last, which is the one every client applied last.
C22_LastWriteWins ==
  Quiescent =>
    \A c \in Conns : \A it \in board.items[c] : \A k \in 1..Len(drawings) :
      (/\ sockets[c] = "open"
       /\ it.type = "text"
       /\ IsUpdate(it.data)
       /\ drawings[k].id = it.id
       /\ IsUpdate(drawings[k].data))
        => drawings[k].data = it.data

\* the statements the step has handed to the database
NewStatements == {dbQueue'[i] : i \in Len(dbQueue) + 1..Len(dbQueue')}

\* C23: an item created by a drawing or text event is stored with the username
\* bound to the sending connection at that time as its owner, whatever userId or
\* owner the client put into the payload, and no textUpdate or textMove changes
\* the owner, the kind or the creation time of a stored item.
C23_OwnerStampedAndKept ==
  [][/\ \A op \in NewStatements :
         op.cb \in {"drawing", "text"} =>
           /\ op.arg.user_id = userData[op.conn].username
           /\ op.arg.type = op.cb
           /\ \A p \in op.arg.data :
                (p[1] = "userId") => (p[2] = userData[op.conn].username)
     /\ (Len(drawings') = Len(drawings) + 1) =>
          (\A i \in 1..Len(dbQueue) :
             (dbQueue[i].cb \in {"drawing", "text"} /\ DbExec(i)) =>
               /\ drawings'[Len(drawings')].user_id = dbQueue[i].arg.user_id
               /\ drawings'[Len(drawings')].type = dbQueue[i].arg.type)
     /\ (last'.op = "exec" /\ last'.cb \in {"textUpdate", "textMove"}) =>
          (/\ Len(drawings') = Len(drawings)
           /\ \A k \in 1..Len(drawings) :
                /\ drawings'[k].id = drawings[k].id
                /\ drawings'[k].user_id = drawings[k].user_id
                /\ drawings'[k].type = drawings[k].type
                /\ drawings'[k].created_at = drawings[k].created_at)]_vars

\* Ann's text that named Bob as its owner is stored as Ann's, and a text of
\* Ann that Cara has updated is still Ann's
C23_Witness ==
  \E k, j \in 1..Len(drawings) :
    /\ drawings[k].user_id = "Ann"
    /\ <<"owner", "Bob">> \in drawings[k].data
    /\ drawings[j].user_id = "Ann"
    /\ drawings[j].type = "text"
    /\ <<"userId", "Cara">> \in drawings[j].data

\* C24: in every quiescent state (no statement pending, no message on its
\* way) the board obtained by replaying the stored items is the board of a
\* connection that was Active throughout and applied every event it received
\* to its own events.  Under SessionSpec a connection that is open has been
\* Active from the start.
C24_ReplayConsistent ==
  Quiescent => \A c \in Conns : sockets[c] = "open" => Replay(drawings) = board.items[c]

\* the stored item that the text event with this id appended
IsTextWithId(row, id) == row.type = "text" /\ IdIn(row.data) = id

\* the rows of the table after the step
RowsAfterStep == {drawings'[k] : k \in 1..Len(drawings')}

\* C26: a permitted textUpdate, textMove or textDelete that names a text by the
\* id of its text event changes or removes exactly the stored item that event
\* appended and no other; it never alters or deletes a stroke.
C26_TextEventsHitTheirText ==
  [][\A i \in 1..Len(dbQueue) :
       (/\ last'.op = "exec"
        /\ dbQueue[i].cb \in {"textUpdate", "textMove", "textDelete"}
        /\ \E k \in 1..Len(drawings) : IsTextWithId(drawings[k], dbQueue[i].arg.id)
        /\ DbExec(i))
         => \A k \in 1..Len(drawings) :
              IF IsTextWithId(drawings[k], dbQueue[i].arg.id)
                THEN IF dbQueue[i].cb = "textDelete"
                       THEN \A row \in RowsAfterStep : row.id # drawings[k].id
                       ELSE [drawings[k] EXCEPT !.data = dbQueue[i].arg.data] \in RowsAfterStep
                ELSE drawings[k] \in RowsAfterStep]_vars

\* the connections bound in the registry
Bound == {user_sessions[k].socket_id : k \in 1..Len(user_sessions)}

\* C25: in every quiescent state the connections bound in the registry are the
\* Active connections: no live joined connection is missing (also after the
\* sweep of stale bindings has run) and no disconnected connection remains.
C25_RegistryIsActiveSet ==
  Quiescent => Bound = {c \in Conns : Active(c)}
====
